---- MODULE Spec2Model ----
(***************************************************************************)
(* Model of automation.py: the retry loop of __main__, the linear control  *)
(* flow of run(), the print-to-PDF extraction of print_then_save_pdf and   *)
(* the mail step send_via_outlook.                                         *)
(*                                                                         *)
(* Every statement of the try body may raise an Exception (a Playwright    *)
(* timeout, a COM error, an OSError of print or of the file system); the   *)
(* except handler of __main__ is taken to run to its end.  Signals and     *)
(* BaseException (KeyboardInterrupt, SystemExit) are outside the model.    *)
(***************************************************************************)
EXTENDS Integers, Sequences, FiniteSets, TLC

(* ------------------------------ bounds -------------------------------- *)

\* MAX_RETRIES is read from the environment: any integer in
\* (0 - NegRetries) .. MaxRetriesBound.
MaxRetriesBound == 3
NegRetries == 1
\* PDF sizes range over MinPdfSize - SizeSlack .. MinPdfSize + SizeSlack.
SizeSlack == 1

(* --------------------------- program constants ------------------------ *)

\* print_then_save_pdf: save_path.stat().st_size < 5_000
MinPdfSize == 5000

None == "None"

\* No exception: last_error = None.  An exception is <<attempt, step>>.
NoError == << 0, None >>

\* No PDF bytes yet; PDF bytes are a size and the report they render.
NoBytes == [size |-> 0, html |-> None]

\* file_meznon, file_kupot of run()
Files == {"file_meznon", "file_kupot"}

\* The two reports: posClasses=3 and posClasses=[1,4,2,5].
Reports == {"meznon", "kupot"}

PdfSizes == (MinPdfSize - SizeSlack) .. (MinPdfSize + SizeSlack)

\* The body of run(), statement group by statement group, in program order.
\* The six steps click..check are the body of print_then_save_pdf.
RunStepsMailBeforeSecondReport ==
    << "setup", "login", "navigate", "filter",
       "render_meznon",
       "click_meznon", "html_meznon", "pdf_meznon",
       "write_meznon", "clean_meznon", "check_meznon",
       "back",
       "close", "mail", "sent_print",
       "render_kupot",
       "click_kupot", "html_kupot", "pdf_kupot",
       "write_kupot", "clean_kupot", "check_kupot",
       "done_print" >>

RunSteps ==
    << "setup", "login", "navigate", "filter",
       "render_meznon",
       "click_meznon", "html_meznon", "pdf_meznon",
       "write_meznon", "clean_meznon", "check_meznon",
       "back",
       "render_kupot",
       "click_kupot", "html_kupot", "pdf_kupot",
       "write_kupot", "clean_kupot", "check_kupot",
       "close", "mail", "sent_print", "done_print" >>

\* The try body of __main__: print, run(), print, break.
TryBody == << "announce" >> \o RunSteps \o << "success_print" >>

ClickSteps == {"click_meznon", "click_kupot"}
HtmlSteps  == {"html_meznon", "html_kupot"}
PdfSteps   == {"pdf_meznon", "pdf_kupot"}
WriteSteps == {"write_meznon", "write_kupot"}
CleanSteps == {"clean_meznon", "clean_kupot"}
CheckSteps == {"check_meznon", "check_kupot"}

\* The steps inside print_then_save_pdf.
ExtractSteps ==
    ClickSteps \cup HtmlSteps \cup PdfSteps \cup WriteSteps \cup CleanSteps
        \cup CheckSteps

\* Steps with no effect on the modelled state besides control flow.
PlainSteps ==
    { "login", "navigate", "filter", "render_meznon", "back", "render_kupot",
      "close", "sent_print", "done_print", "success_print" }

\* The report a step of print_then_save_pdf works on, and its save_path.
ReportOf(s) ==
    IF s \in { "click_meznon", "html_meznon", "pdf_meznon", "write_meznon",
               "clean_meznon", "check_meznon" }
    THEN "meznon" ELSE "kupot"

PathOf(s) == IF ReportOf(s) = "meznon" THEN "file_meznon" ELSE "file_kupot"

Max(a, b) == IF a >= b THEN a ELSE b
Min(a, b) == IF a <= b THEN a ELSE b

NoFile == [exists |-> FALSE, size |-> 0, html |-> None, writtenIn |-> 0]

\* No mail sent yet; a mail is the attempt that sent it and its attachments.
NoMail == [attempt |-> 0, files |-> [f \in Files |-> NoFile]]

VARIABLES
    MAX_RETRIES,    \* int(os.environ["MAX_RETRIES"])
    pc,             \* "loop", "try", "except", "sleep", "raised", "exited"
    attempt,        \* the loop variable of the for statement (0 before it)
    ip,             \* index in TryBody of the statement to execute next
    exc,            \* the exception in flight: <<attempt, step>>
    last_error,     \* last_error of __main__
    raisedCause,    \* __cause__ of the final RuntimeError
    disk,           \* the two output files on disk
    iframe,         \* report held by #stiPrintReportFrame, or None
    print_html,     \* print_html of print_then_save_pdf
    pdf_bytes,      \* pdf_bytes of print_then_save_pdf
    runs,           \* number of calls of run()
    results,        \* outcome of every finished loop iteration
    executed,       \* steps of the current attempt that completed
    failedAt,       \* index of the step of the current attempt that raised
    mailsSent,      \* number of mail.Send() calls
    lastMail,       \* attempt and attachments of the latest mail.Send()
    delays,         \* number of time.sleep(RETRY_DELAY_SECONDS) calls
    strategiesTried \* extraction strategies entered by the current call

vars ==
    << MAX_RETRIES, pc, attempt, ip, exc, last_error, raisedCause, disk,
       iframe, print_html, pdf_bytes, runs, results, executed, failedAt,
       mailsSent, lastMail, delays, strategiesTried >>

\* The statement of the try body about to execute.
Step == IF pc = "try" /\ ip <= Len(TryBody) THEN TryBody[ip] ELSE None

\* A file left on disk by an earlier run of the script, or no file.
StaleFiles ==
    {NoFile} \cup
    { [exists |-> TRUE, size |-> s, html |-> "old", writtenIn |-> 0] :
        s \in PdfSizes }

Init ==
    /\ MAX_RETRIES \in (0 - NegRetries) .. MaxRetriesBound
    /\ pc = "loop"
    /\ attempt = 0
    /\ ip = 0
    /\ exc = NoError
    /\ last_error = NoError
    /\ raisedCause = << 0, "unset" >>
    /\ disk \in [Files -> StaleFiles]
    /\ iframe = None
    /\ print_html = None
    /\ pdf_bytes = NoBytes
    /\ runs = 0
    /\ results = << >>
    /\ executed = << >>
    /\ failedAt = 0
    /\ mailsSent = 0
    /\ lastMail = NoMail
    /\ delays = 0
    /\ strategiesTried = 0

(* --------------------------- the retry loop --------------------------- *)

\* for attempt in range(1, MAX_RETRIES + 1): is there a next value after a?
HasNextAtLeastOnce(a) == a = 0 \/ a < MAX_RETRIES

HasNext(a) == a < MAX_RETRIES

\* if attempt < MAX_RETRIES: sleep
ShouldSleepAfterLast(a) == a <= MAX_RETRIES

ShouldSleep(a) == a < MAX_RETRIES

\* The for statement yields the next attempt and enters the try body.
ForNext ==
    /\ pc = "loop"
    /\ HasNext(attempt)
    /\ attempt' = attempt + 1
    /\ pc' = "try"
    /\ ip' = 1
    /\ executed' = << >>
    /\ failedAt' = 0
    /\ UNCHANGED << MAX_RETRIES, exc, last_error, raisedCause, disk, iframe,
                    print_html, pdf_bytes, runs, results, mailsSent,
                    lastMail, delays, strategiesTried >>

ForElseSilent ==
    /\ pc = "loop"
    /\ ~HasNext(attempt)
    /\ pc' = "exited"
    /\ UNCHANGED << MAX_RETRIES, attempt, ip, exc, last_error, raisedCause,
                    disk, iframe, print_html, pdf_bytes, runs, results,
                    executed, failedAt, mailsSent, lastMail, delays,
                    strategiesTried >>

\* The range is exhausted without break: the else clause raises
\* RuntimeError(...) from last_error.
ForElse ==
    /\ pc = "loop"
    /\ ~HasNext(attempt)
    /\ pc' = "raised"
    /\ raisedCause' = last_error
    /\ UNCHANGED << MAX_RETRIES, attempt, ip, exc, last_error, disk, iframe,
                    print_html, pdf_bytes, runs, results, executed, failedAt,
                    mailsSent, lastMail, delays, strategiesTried >>

\* A step completed: control moves to the next statement.
Advance ==
    /\ executed' = Append(executed, Step)
    /\ ip' = ip + 1
    /\ UNCHANGED << MAX_RETRIES, pc, attempt, exc, last_error, raisedCause,
                    results, failedAt, delays >>

\* print(f"Attempt ..."); run() is called.
Announce ==
    /\ Step = "announce"
    /\ runs' = runs + 1
    /\ Advance
    /\ UNCHANGED << disk, iframe, print_html, pdf_bytes, mailsSent, lastMail,
                    strategiesTried >>

\* Environment, output directory, a new browser, context and page.
Setup ==
    /\ Step = "setup"
    /\ iframe' = None
    /\ print_html' = None
    /\ pdf_bytes' = NoBytes
    /\ strategiesTried' = 0
    /\ Advance
    /\ UNCHANGED << disk, runs, mailsSent, lastMail >>

\* login, navigate, filters, open_report_view, back, close, and the prints.
PlainStep ==
    /\ Step \in PlainSteps
    /\ Advance
    /\ UNCHANGED << disk, iframe, print_html, pdf_bytes, runs, mailsSent,
                    lastMail, strategiesTried >>

(* ------------------------ print_then_save_pdf ------------------------- *)

\* Stimulsoft builds #stiPrintReportFrame for the report on screen.  With no
\* frame attached the new frame is the one found by getElementById; with a
\* frame of an earlier print still attached the viewer's behaviour is not
\* fixed by this program: either frame may be the one found.
IframeAfterClick(f, r) == IF f = None THEN {r} ELSE {f, r}

\* window.print is blocked, the Print cell is clicked and the frame attaches.
ClickPrint ==
    /\ Step \in ClickSteps
    /\ iframe' \in IframeAfterClick(iframe, ReportOf(Step))
    /\ strategiesTried' = strategiesTried + 1
    /\ Advance
    /\ UNCHANGED << disk, print_html, pdf_bytes, runs, mailsSent, lastMail >>

\* print_html = outerHTML of the frame's document (not null).
ExtractHtml ==
    /\ Step \in HtmlSteps
    /\ iframe # None
    /\ print_html' = iframe
    /\ Advance
    /\ UNCHANGED << disk, iframe, pdf_bytes, runs, mailsSent, lastMail,
                    strategiesTried >>

\* A fresh page renders print_html; Page.printToPDF returns the bytes.
PrintToPdf ==
    /\ Step \in PdfSteps
    /\ \E s \in PdfSizes : pdf_bytes' = [size |-> s, html |-> print_html]
    /\ Advance
    /\ UNCHANGED << disk, iframe, print_html, runs, mailsSent, lastMail,
                    strategiesTried >>

\* save_path.write_bytes(pdf_bytes)
WriteBytes ==
    /\ Step \in WriteSteps
    /\ disk' = [disk EXCEPT ![PathOf(Step)] =
                   [exists |-> TRUE, size |-> pdf_bytes.size,
                    html |-> pdf_bytes.html, writtenIn |-> attempt]]
    /\ Advance
    /\ UNCHANGED << iframe, print_html, pdf_bytes, runs, mailsSent, lastMail,
                    strategiesTried >>

CleanupSkipped ==
    /\ Step \in CleanSteps
    /\ Advance
    /\ UNCHANGED << disk, iframe, print_html, pdf_bytes, runs, mailsSent,
                    lastMail, strategiesTried >>

\* The print frame is removed from the original page.
Cleanup ==
    /\ Step \in CleanSteps
    /\ iframe' = None
    /\ Advance
    /\ UNCHANGED << disk, print_html, pdf_bytes, runs, mailsSent, lastMail,
                    strategiesTried >>

SizeTooSmallOffByOne(sz) == sz < MinPdfSize - 1

\* save_path.stat().st_size < 5_000
SizeTooSmall(sz) == sz < MinPdfSize

\* not save_path.exists() or save_path.stat().st_size < 5_000
PdfMissingOrTooSmall(f) == ~disk[f].exists \/ SizeTooSmall(disk[f].size)

\* The size check passes and print_then_save_pdf returns.
SizeCheck ==
    /\ Step \in CheckSteps
    /\ ~PdfMissingOrTooSmall(PathOf(Step))
    /\ strategiesTried' = 0
    /\ Advance
    /\ UNCHANGED << disk, iframe, print_html, pdf_bytes, runs, mailsSent,
                    lastMail >>

(* ------------------------------ exceptions ---------------------------- *)

\* The statement at ip raises: control leaves the try body for the handler.
Raise ==
    /\ pc' = "except"
    /\ exc' = << attempt, Step >>
    /\ failedAt' = ip
    /\ UNCHANGED << MAX_RETRIES, attempt, ip, last_error, raisedCause, iframe,
                    print_html, pdf_bytes, runs, results, executed, mailsSent,
                    lastMail, delays >>

\* raise RuntimeError("PDF missing/too small after print: ...")
SizeCheckRaises ==
    /\ Step \in CheckSteps
    /\ PdfMissingOrTooSmall(PathOf(Step))
    /\ Raise
    /\ UNCHANGED << disk, strategiesTried >>

\* write_bytes raises after opening the file: a shorter file is left behind.
WriteRaisesPartial ==
    /\ Step \in WriteSteps
    /\ \E s \in {0} \cup {t \in PdfSizes : t < pdf_bytes.size} :
          disk' = [disk EXCEPT ![PathOf(Step)] =
                      [exists |-> TRUE, size |-> s, html |-> pdf_bytes.html,
                       writtenIn |-> attempt]]
    /\ Raise
    /\ UNCHANGED strategiesTried

ExtractionFallsBack ==
    /\ Step \in ExtractSteps
    /\ failedAt' = ip
    /\ ip' = CHOOSE i \in 1..Len(TryBody) :
                TryBody[i] \in ClickSteps /\ ReportOf(TryBody[i]) = ReportOf(Step)
    /\ UNCHANGED << MAX_RETRIES, pc, attempt, exc, last_error, raisedCause,
                    disk, iframe, print_html, pdf_bytes, runs, results,
                    executed, mailsSent, lastMail, delays, strategiesTried >>

\* A statement of print_then_save_pdf raises (a timeout, a null print_html,
\* a CDP or file error): the function has no handler, the exception leaves it.
\* A raise of the first step still counts the strategy as entered.
ExtractionRaises ==
    /\ Step \in ExtractSteps
    /\ strategiesTried' =
          IF Step \in ClickSteps THEN strategiesTried + 1 ELSE strategiesTried
    /\ Raise
    /\ UNCHANGED disk

StepRaisesSwallowed ==
    /\ Step # None
    /\ Step \notin ExtractSteps
    /\ failedAt' = ip
    /\ ip' = ip + 1
    /\ UNCHANGED << MAX_RETRIES, pc, attempt, exc, last_error, raisedCause,
                    disk, iframe, print_html, pdf_bytes, runs, results,
                    executed, mailsSent, lastMail, delays, strategiesTried >>

\* Any other statement of the try body raises.
StepRaises ==
    /\ Step # None
    /\ Step \notin ExtractSteps
    /\ Raise
    /\ UNCHANGED << disk, strategiesTried >>

(* --------------------------- send_via_outlook ------------------------- *)

\* Both paths are attached (Attachments.Add needs the file) and mail.Send().
send_via_outlook ==
    /\ Step = "mail"
    /\ \A f \in Files : disk[f].exists
    /\ mailsSent' = mailsSent + 1
    /\ lastMail' = [attempt |-> attempt, files |-> disk]
    /\ Advance
    /\ UNCHANGED << disk, iframe, print_html, pdf_bytes, runs,
                    strategiesTried >>

(* ----------------------- the end of an attempt ------------------------ *)

BreakMissing ==
    /\ pc = "try"
    /\ ip = Len(TryBody) + 1
    /\ results' = Append(results, "ok")
    /\ pc' = "loop"
    /\ UNCHANGED << MAX_RETRIES, attempt, ip, exc, last_error, raisedCause,
                    disk, iframe, print_html, pdf_bytes, runs, executed,
                    failedAt, mailsSent, lastMail, delays, strategiesTried >>

\* The try body ran to its end: break leaves the loop, skipping its else.
Break ==
    /\ pc = "try"
    /\ ip = Len(TryBody) + 1
    /\ results' = Append(results, "ok")
    /\ pc' = "exited"
    /\ UNCHANGED << MAX_RETRIES, attempt, ip, exc, last_error, raisedCause,
                    disk, iframe, print_html, pdf_bytes, runs, executed,
                    failedAt, mailsSent, lastMail, delays, strategiesTried >>

\* except Exception as e: last_error = e; sleep unless this was the last try.
Except ==
    /\ pc = "except"
    /\ last_error' = exc
    /\ exc' = NoError
    /\ results' = Append(results, "failed")
    /\ pc' = IF ShouldSleep(attempt) THEN "sleep" ELSE "loop"
    /\ UNCHANGED << MAX_RETRIES, attempt, ip, raisedCause, disk, iframe,
                    print_html, pdf_bytes, runs, executed, failedAt,
                    mailsSent, lastMail, delays, strategiesTried >>

\* time.sleep(RETRY_DELAY_SECONDS)
Sleep ==
    /\ pc = "sleep"
    /\ delays' = delays + 1
    /\ pc' = "loop"
    /\ UNCHANGED << MAX_RETRIES, attempt, ip, exc, last_error, raisedCause,
                    disk, iframe, print_html, pdf_bytes, runs, results,
                    executed, failedAt, mailsSent, lastMail, strategiesTried >>

Next ==
    \/ ForNext \/ ForElse
    \/ Announce \/ Setup \/ PlainStep
    \/ ClickPrint \/ ExtractHtml \/ PrintToPdf \/ WriteBytes \/ Cleanup
    \/ SizeCheck \/ SizeCheckRaises \/ WriteRaisesPartial
    \/ ExtractionRaises \/ StepRaises
    \/ send_via_outlook
    \/ Break \/ Except \/ Sleep

Spec == Init /\ [][Next]_vars

(* ------------------------------ properties ---------------------------- *)

Terminated == pc \in {"raised", "exited"}

Range(q) == {q[i] : i \in DOMAIN q}

\* k: the number of attempts that failed so far.
FailedCount == Cardinality({i \in DOMAIN results : results[i] = "failed"})

\* A new attempt starts only after the previous attempt failed.
OnlyAfterFailure ==
    pc \in {"try", "except"} =>
        /\ Len(results) = attempt - 1
        /\ \A i \in DOMAIN results : results[i] = "failed"

\* After an attempt succeeded no further attempt is started.
NoneAfterSuccess == "ok" \in Range(results) => pc = "exited"

\* C1 (as stated): the number of calls of run() never exceeds MAX_RETRIES, a
\* new attempt starts only after the previous one failed, and no attempt
\* starts after a success.
C1_AttemptsAtMostMaxRetries ==
    /\ runs <= MAX_RETRIES
    /\ OnlyAfterFailure
    /\ NoneAfterSuccess

\* C1 (amended): the number of calls of run() never exceeds
\* max(MAX_RETRIES, 0); a new attempt starts only after the previous one
\* failed; after a success no attempt is started.
C1_AttemptsBounded ==
    /\ runs <= Max(MAX_RETRIES, 0)
    /\ attempt <= Max(MAX_RETRIES, 0)
    /\ OnlyAfterFailure
    /\ NoneAfterSuccess

C1_Witness ==
    /\ pc = "exited"
    /\ runs = MAX_RETRIES
    /\ results = << "failed", "failed", "ok" >>

MailIndex == CHOOSE i \in DOMAIN TryBody : TryBody[i] = "mail"

\* C3: once a step of an attempt raised, no later step of that attempt is
\* executed: the steps executed are exactly those before the failing one, and
\* an attempt that failed before the mail step sent no mail.
C3_FailureAbortsAttempt ==
    failedAt # 0 =>
        /\ pc # "try"
        /\ Len(executed) = failedAt - 1
        /\ failedAt <= MailIndex =>
              /\ "mail" \notin Range(executed)
              /\ lastMail.attempt # attempt

C3_Witness ==
    /\ pc = "loop"
    /\ failedAt # 0
    /\ TryBody[failedAt] = "check_kupot"
    /\ attempt = 2
    /\ mailsSent = 0

\* C4: one execution sends at most one email: exactly one when it ends
\* normally, none when it ends with the RuntimeError.
C4_OneEmail ==
    /\ mailsSent <= 1
    /\ pc = "exited" => mailsSent = 1
    /\ pc = "raised" => mailsSent = 0

\* C5: whenever a mail was sent, both attached files existed, were at least
\* MinPdfSize bytes and had been written in the attempt that sent the mail.
C5_MailedPdfsFreshAndBigEnough ==
    lastMail.attempt # 0 =>
        \A f \in Files :
            /\ lastMail.files[f].exists
            /\ lastMail.files[f].size >= MinPdfSize
            /\ lastMail.files[f].writtenIn = lastMail.attempt

C5_Witness ==
    /\ lastMail.attempt = 2
    /\ mailsSent = 1
    /\ \A f \in Files : lastMail.files[f].size = MinPdfSize

\* C6 (as stated): an attempt fails in PDF extraction only after three
\* extraction strategies were tried.
C6_ThreeStrategies ==
    (pc = "except" /\ exc[2] \in ExtractSteps) => strategiesTried = 3

\* C6 (amended): PDF extraction has one strategy; when a step of it raises,
\* the attempt is over at once and no other strategy was tried.
C6_SingleStrategy ==
    /\ strategiesTried <= 1
    /\ (failedAt # 0 /\ TryBody[failedAt] \in ExtractSteps) =>
          /\ pc # "try"
          /\ strategiesTried = 1

C6_Witness ==
    /\ pc = "except"
    /\ exc[2] = "html_meznon"
    /\ strategiesTried = 1

\* The order of the claim: each phase with its first and its last step.
C7_Order ==
    << << "login", "login" >>, << "navigate", "navigate" >>,
       << "filter", "filter" >>, << "render_meznon", "render_meznon" >>,
       << "click_meznon", "check_meznon" >>, << "back", "back" >>,
       << "render_kupot", "render_kupot" >>,
       << "click_kupot", "check_kupot" >>, << "mail", "mail" >> >>

\* A step started in the current attempt: it completed, is running or raised.
Started(s) ==
    \/ s \in Range(executed)
    \/ Step = s
    \/ (failedAt # 0 /\ TryBody[failedAt] = s)

\* C7: in every attempt the steps run in the order login, navigate, filter,
\* render A, extract A, back, render B, extract B, mail; a step starts only
\* after its predecessor succeeded in the same attempt, so every attempt
\* starts again from login; no step runs twice in an attempt.
C7_FixedStepOrder ==
    /\ \A k \in 2..Len(C7_Order) :
          Started(C7_Order[k][1]) => C7_Order[k - 1][2] \in Range(executed)
    /\ \A i, j \in DOMAIN executed : executed[i] = executed[j] => i = j
    /\ (pc = "try" /\ "login" \notin Range(executed)) =>
          Step \in {"announce", "setup", "login"}

C7_Witness ==
    /\ attempt = 2
    /\ Step = "mail"
    /\ last_error = << 1, "filter" >>

\* The delay is waited once after a failed attempt that another attempt
\* follows, before that attempt starts, and at no other time.
DelayTiming ==
    /\ pc = "try" => delays = attempt - 1
    /\ pc = "sleep" =>
          /\ delays = attempt - 1
          /\ attempt < MAX_RETRIES
          /\ results[Len(results)] = "failed"

ReportFor(f) == IF f = "file_meznon" THEN "meznon" ELSE "kupot"

\* C9: when Print is clicked for report B no print iframe is attached; every
\* successful return of print_then_save_pdf leaves none attached; a file
\* written by this process holds the HTML of its own report.
C9_NoStalePrintFrame ==
    /\ Step = "click_kupot" => iframe = None
    /\ (executed # << >> /\ executed[Len(executed)] \in CheckSteps) =>
          iframe = None
    /\ \A f \in Files : disk[f].writtenIn # 0 => disk[f].html = ReportFor(f)

C9_Witness ==
    /\ Step = "close"
    /\ disk["file_kupot"].writtenIn = attempt
    /\ disk["file_meznon"].writtenIn = attempt

\* C10: with MAX_RETRIES <= 0 no attempt runs, no PDF is written, no mail is
\* sent, and the process ends with the RuntimeError, whose cause is None.
C10_NoAttemptStillFailsLoudly ==
    MAX_RETRIES <= 0 =>
        /\ runs = 0
        /\ attempt = 0
        /\ \A f \in Files : disk[f] \in StaleFiles
        /\ mailsSent = 0
        /\ pc \in {"loop", "raised"}
        /\ pc = "raised" => raisedCause = NoError

C10_Witness ==
    /\ MAX_RETRIES <= 0
    /\ pc = "raised"
    /\ disk["file_meznon"].exists
====
